---- MODULE Spec2Model ----
(***************************************************************************)
(* Model of the Remote-Jobs dashboard back end (src/app.py): the           *)
(* module-level build of the canonical job table from the per-company CSV  *)
(* files, the salary and tag parsers, the Jaccard similarity and the       *)
(* similar-jobs query; and of the tagging script                           *)
(* (src/augment/add_tags.py): parse_tags and the batch loop of tag_jobs.   *)
(*                                                                         *)
(* Text is a sequence of one-character strings.  A CSV cell is a record    *)
(* [kind, s, n]: kind "nan" (pandas' missing value), "str" (text s),       *)
(* "int" or "float" (a numeric cell of integral value n, which is what     *)
(* read_csv yields for a column holding only numbers).  An optional        *)
(* number (Python's None or a float) is a set: {} or {v}.                  *)
(***************************************************************************)
EXTENDS Integers, Sequences, FiniteSets, TLC

----------------------------------------------------------------------------
(* Bounds of the model *)

\* longest tag text of the tag-parser inputs
MaxTagLen == 4
\* most pieces of a salary text built from the core pieces
MaxPieces == 5
\* most pieces of a salary text built from all the pieces
MaxWidePieces == 3
\* largest numeric cell of the parser inputs
MaxNum == 3
\* most rows of the files of the small tables, all files together
MaxRows == 2
\* most rows of a file of the large tables
MaxCopies == 6
\* most rows of the input file of tag_jobs
MaxInputRows == 3
\* largest batch_size of tag_jobs
MaxBatch == 3
\* most lines, or array elements, of a reply of generate
MaxReplyLines == 3
\* the similar-jobs queries ask for the first MaxAsked rows of the table
MaxAsked == 3
\* tag IDs of the similarity inputs are 1..MaxTag
MaxTag == 3
\* longest tag list of the similarity inputs
MaxTagList == 3
\* most rows of the file that load_job_data reads in any shape
MaxFileRows == 2

----------------------------------------------------------------------------
(* Cells and text *)

NaN == [kind |-> "nan", s |-> <<>>, n |-> 0]
Str(s) == [kind |-> "str", s |-> s, n |-> 0]
IntCell(n) == [kind |-> "int", s |-> <<>>, n |-> n]
FloatCell(n) == [kind |-> "float", s |-> <<>>, n |-> n]

None == {}
Some(v) == {v}
Val(o) == CHOOSE v \in o : TRUE

DigitVal ==
  ("0" :> 0) @@ ("1" :> 1) @@ ("2" :> 2) @@ ("3" :> 3) @@ ("4" :> 4) @@
  ("5" :> 5) @@ ("6" :> 6) @@ ("7" :> 7) @@ ("8" :> 8) @@ ("9" :> 9)

DigitChar == <<"0", "1", "2", "3", "4", "5", "6", "7", "8", "9">>

IsDigit(c) == c \in DOMAIN DigitVal

IsSpace(c) == c = " "

LowerMap == ("H" :> "h") @@ ("R" :> "r") @@ ("N" :> "n") @@ ("T" :> "t") @@ ("D" :> "d")

\* str.lower()
Lower(s) == [i \in 1..Len(s) |-> IF s[i] \in DOMAIN LowerMap THEN LowerMap[s[i]] ELSE s[i]]

\* x in s, for text x and s
Contains(s, x) ==
  \E i \in 1..(Len(s) - Len(x) + 1) : SubSeq(s, i, i + Len(x) - 1) = x

\* str.strip()
RECURSIVE LStrip(_)
LStrip(s) == IF s # <<>> /\ IsSpace(Head(s)) THEN LStrip(Tail(s)) ELSE s

RECURSIVE RStrip(_)
RStrip(s) ==
  IF s # <<>> /\ IsSpace(s[Len(s)]) THEN RStrip(SubSeq(s, 1, Len(s) - 1)) ELSE s

Strip(s) == RStrip(LStrip(s))

\* str.isdigit()
IsDigitStr(s) == s # <<>> /\ \A i \in 1..Len(s) : IsDigit(s[i])

\* the value of a non-empty string of decimal digits
RECURSIVE DecVal(_)
DecVal(s) ==
  IF s = <<>> THEN 0 ELSE 10 * DecVal(SubSeq(s, 1, Len(s) - 1)) + DigitVal[s[Len(s)]]

\* the decimal digits of a natural number
RECURSIVE Digits(_)
Digits(n) ==
  IF n < 10 THEN <<DigitChar[n + 1]>> ELSE Append(Digits(n \div 10), DigitChar[(n % 10) + 1])

\* str(cell)
PyStr(c) ==
  CASE c.kind = "str" -> c.s
    [] c.kind = "int" -> Digits(c.n)
    [] c.kind = "float" -> Digits(c.n) \o <<".", "0">>
    [] OTHER -> <<"n", "a", "n">>

\* str.split(sep) for a one-character separator
RECURSIVE Split(_, _)
Split(s, sep) ==
  IF \E i \in 1..Len(s) : s[i] = sep
  THEN LET i == CHOOSE k \in 1..Len(s) : s[k] = sep /\ \A j \in 1..(k - 1) : s[j] # sep
       IN  <<SubSeq(s, 1, i - 1)>> \o Split(SubSeq(s, i + 1, Len(s)), sep)
  ELSE <<s>>

\* str.replace(c, '') for a one-character c
RECURSIVE Remove(_, _)
Remove(s, c) ==
  IF s = <<>> THEN <<>>
  ELSE IF Head(s) = c THEN Remove(Tail(s), c) ELSE <<Head(s)>> \o Remove(Tail(s), c)

Range(f) == {f[i] : i \in DOMAIN f}

----------------------------------------------------------------------------
(* parse_tag_ids *)

FallbackTag == 28

\* int(text): surrounding whitespace and one sign are accepted; {} stands
\* for the ValueError
IntOfText(s) ==
  LET t == Strip(s)
      signed == t # <<>> /\ Head(t) \in {"-", "+"}
      body == IF signed THEN Tail(t) ELSE t
  IN  IF IsDigitStr(body)
      THEN Some(IF signed /\ Head(t) = "-" THEN 0 - DecVal(body) ELSE DecVal(body))
      ELSE None

\* int(cell) of the single-token branch
IntOfCell(c) == IF c.kind = "str" THEN IntOfText(c.s) ELSE Some(c.n)

\* [int(x.strip()) for x in toks if x.strip().isdigit()]
RECURSIVE DigitTokens(_)
DigitTokens(toks) ==
  IF toks = <<>> THEN <<>>
  ELSE LET x == Strip(Head(toks))
       IN  (IF IsDigitStr(x) THEN <<DecVal(x)>> ELSE <<>>) \o DigitTokens(Tail(toks))

parse_tag_ids(tag_ids_str) ==
  IF tag_ids_str.kind = "nan" THEN <<FallbackTag>>
  ELSE IF Contains(PyStr(tag_ids_str), <<",">>)
       THEN DigitTokens(Split(PyStr(tag_ids_str), ","))
       ELSE IF IntOfCell(tag_ids_str) = None
            THEN <<FallbackTag>>
            ELSE <<Val(IntOfCell(tag_ids_str))>>

----------------------------------------------------------------------------
(* extract_salary_range *)

NotSpecified == <<"N", "o", "t", " ", "s", "p", "e", "c", "i", "f", "i", "e", "d">>

EnDash == "endash"

IsDash(c) == c \in {"-", EnDash}

\* the index after the longest run of digits that starts at i
RECURSIVE DigitsEnd(_, _)
DigitsEnd(s, i) == IF i <= Len(s) /\ IsDigit(s[i]) THEN DigitsEnd(s, i + 1) ELSE i

\* the index after the longest run of whitespace that starts at i
RECURSIVE SpacesEnd(_, _)
SpacesEnd(s, i) == IF i <= Len(s) /\ IsSpace(s[i]) THEN SpacesEnd(s, i + 1) ELSE i

\* the index after the match of \d+(?:,\d+)? at i, where s[i] is a digit
NumEnd(s, i) ==
  LET j == DigitsEnd(s, i)
  IN  IF j + 1 <= Len(s) /\ s[j] = "," /\ IsDigit(s[j + 1]) THEN DigitsEnd(s, j + 1) ELSE j

\* where the digits of a match of \$?(\d+(?:,\d+)?) at i start; 0 for no match
NumStart(s, i) ==
  IF i <= Len(s) /\ IsDigit(s[i]) THEN i
  ELSE IF i + 1 <= Len(s) /\ s[i] = "$" /\ IsDigit(s[i + 1]) THEN i + 1
  ELSE 0

\* re.findall(r'\$?(\d+(?:,\d+)?)', s), scanning from i
RECURSIVE FindNumbers(_, _)
FindNumbers(s, i) ==
  IF i > Len(s) THEN <<>>
  ELSE IF NumStart(s, i) = 0 THEN FindNumbers(s, i + 1)
  ELSE LET b == NumStart(s, i)
           e == NumEnd(s, b)
       IN  <<SubSeq(s, b, e - 1)>> \o FindNumbers(s, e)

\* the groups of a match of \$?(\d+(?:,\d+)?)\s*[-EnDash]\s*\$?(\d+(?:,\d+)?) that
\* starts at i; <<>> for no match
RangeAt(s, i) ==
  LET b1 == NumStart(s, i)
      e1 == NumEnd(s, b1)
      d == SpacesEnd(s, e1)
      b2 == NumStart(s, SpacesEnd(s, d + 1))
      e2 == NumEnd(s, b2)
  IN  IF b1 = 0 THEN <<>>
      ELSE IF ~(d <= Len(s) /\ IsDash(s[d])) THEN <<>>
      ELSE IF b2 = 0 THEN <<>>
      ELSE <<SubSeq(s, b1, e1 - 1), SubSeq(s, b2, e2 - 1)>>

\* re.search of the range pattern: the leftmost match
RangeSearch(s) ==
  IF \E i \in 1..Len(s) : RangeAt(s, i) # <<>>
  THEN RangeAt(s, CHOOSE i \in 1..Len(s) :
                    RangeAt(s, i) # <<>> /\ \A j \in 1..(i - 1) : RangeAt(s, j) = <<>>)
  ELSE <<>>

\* re.search(r'\$?(\d+(?:,\d+)?)', s): the leftmost match
SingleSearch(s) == IF FindNumbers(s, 1) = <<>> THEN <<>> ELSE <<FindNumbers(s, 1)[1]>>

\* float(x.replace(',', ''))
FloatOf(x) == DecVal(Remove(x, ","))

\* extract_salary_range with the generic range rule tried before the hourly rule
extract_salary_range_RangeFirst(salary_str) ==
  IF salary_str.kind = "nan" \/ salary_str = Str(NotSpecified) THEN <<None, None>>
  ELSE LET s == Lower(PyStr(salary_str))
           hourly == Contains(s, <<"h", "o", "u", "r", "l", "y">>) \/ Contains(s, <<"/", "h", "r">>)
           numbers == FindNumbers(s, 1)
           range_match == RangeSearch(s)
           single_match == SingleSearch(s)
       IN  IF range_match # <<>>
           THEN <<Some(FloatOf(range_match[1])), Some(FloatOf(range_match[2]))>>
           ELSE IF hourly /\ Len(numbers) >= 2
           THEN <<Some(FloatOf(numbers[1])), Some(FloatOf(numbers[2]))>>
           ELSE IF hourly /\ Len(numbers) = 1
           THEN <<Some(FloatOf(numbers[1])), Some(FloatOf(numbers[1]))>>
           ELSE IF single_match # <<>>
           THEN <<Some(FloatOf(single_match[1])), Some(FloatOf(single_match[1]))>>
           ELSE <<None, None>>

\* extract_salary_range with a single value returned as the minimum alone
extract_salary_range_MinOnly(salary_str) ==
  IF salary_str.kind = "nan" \/ salary_str = Str(NotSpecified) THEN <<None, None>>
  ELSE LET s == Lower(PyStr(salary_str))
           hourly == Contains(s, <<"h", "o", "u", "r", "l", "y">>) \/ Contains(s, <<"/", "h", "r">>)
           numbers == FindNumbers(s, 1)
           range_match == RangeSearch(s)
           single_match == SingleSearch(s)
       IN  IF hourly /\ Len(numbers) >= 2
           THEN <<Some(FloatOf(numbers[1])), Some(FloatOf(numbers[2]))>>
           ELSE IF hourly /\ Len(numbers) = 1
           THEN <<Some(FloatOf(numbers[1])), None>>
           ELSE IF range_match # <<>>
           THEN <<Some(FloatOf(range_match[1])), Some(FloatOf(range_match[2]))>>
           ELSE IF single_match # <<>>
           THEN <<Some(FloatOf(single_match[1])), None>>
           ELSE <<None, None>>

extract_salary_range(salary_str) ==
  IF salary_str.kind = "nan" \/ salary_str = Str(NotSpecified) THEN <<None, None>>
  ELSE LET s == Lower(PyStr(salary_str))
           hourly == Contains(s, <<"h", "o", "u", "r", "l", "y">>) \/ Contains(s, <<"/", "h", "r">>)
           numbers == FindNumbers(s, 1)
           range_match == RangeSearch(s)
           single_match == SingleSearch(s)
       IN  IF hourly /\ Len(numbers) >= 2
           THEN <<Some(FloatOf(numbers[1])), Some(FloatOf(numbers[2]))>>
           ELSE IF hourly /\ Len(numbers) = 1
           THEN <<Some(FloatOf(numbers[1])), Some(FloatOf(numbers[1]))>>
           ELSE IF range_match # <<>>
           THEN <<Some(FloatOf(range_match[1])), Some(FloatOf(range_match[2]))>>
           ELSE IF single_match # <<>>
           THEN <<Some(FloatOf(single_match[1])), Some(FloatOf(single_match[1]))>>
           ELSE <<None, None>>

----------------------------------------------------------------------------
(* calculate_similarity *)

RECURSIVE Gcd(_, _)
Gcd(a, b) == IF b = 0 THEN a ELSE Gcd(b, a % b)

\* the float a / b, kept as the fraction in lowest terms (b > 0)
Frac(a, b) == [num |-> a \div Gcd(a, b), den |-> b \div Gcd(a, b)]

Zero == Frac(0, 1)

\* calculate_similarity counting list entries instead of distinct tags
calculate_similarity_Lists(job1_tags, job2_tags) ==
  IF job1_tags = <<>> \/ job2_tags = <<>> THEN Zero
  ELSE LET set1 == Range(job1_tags)
           set2 == Range(job2_tags)
           intersection == Cardinality(set1 \cap set2)
           union == Len(job1_tags) + Len(job2_tags) - intersection
       IN  IF union > 0 THEN Frac(intersection, union) ELSE Zero

\* calculate_similarity dividing by the size of the first set
calculate_similarity_FirstSet(job1_tags, job2_tags) ==
  IF job1_tags = <<>> \/ job2_tags = <<>> THEN Zero
  ELSE LET set1 == Range(job1_tags)
           set2 == Range(job2_tags)
           intersection == Cardinality(set1 \cap set2)
           union == Cardinality(set1)
       IN  IF union > 0 THEN Frac(intersection, union) ELSE Zero

calculate_similarity(job1_tags, job2_tags) ==
  IF job1_tags = <<>> \/ job2_tags = <<>> THEN Zero
  ELSE LET set1 == Range(job1_tags)
           set2 == Range(job2_tags)
           intersection == Cardinality(set1 \cap set2)
           union == Cardinality(set1 \cup set2)
       IN  IF union > 0 THEN Frac(intersection, union) ELSE Zero

----------------------------------------------------------------------------
(* load_job_data *)

Text_t == <<"T", "t">>
Text_d == <<"d", ".">>
Text_u == <<"u">>
Text_l == <<"l">>
Remote == <<"R", "e", "m", "o", "t", "e">>

\* the canonical columns, in the order of the 'map' dictionaries
StdCols == <<"title", "url", "description", "salary", "location", "tag_ids">>

NoCol == "None"

Companies == <<"mercor", "afterquery", "alignerr", "handshake", "outlier", "invisible">>

\* companies[company]['map']
ColumnMap ==
  [mercor |->
     [title |-> "title", url |-> "absolute_url", description |-> "description",
      salary |-> "compensation", location |-> "location", tag_ids |-> "tag_ids"],
   afterquery |->
     [title |-> "Position", url |-> "Detail URL", description |-> "Job Description",
      salary |-> "Salary Range", location |-> NoCol, tag_ids |-> "tag_ids"],
   alignerr |->
     [title |-> "title", url |-> "absolute_url", description |-> "description_raw",
      salary |-> "salary", location |-> "location", tag_ids |-> "tag_ids"],
   handshake |->
     [title |-> "title", url |-> "url", description |-> "overview",
      salary |-> "pay", location |-> NoCol, tag_ids |-> "tag_ids"],
   outlier |->
     [title |-> "title", url |-> "url", description |-> "description",
      salary |-> "payment", location |-> "location", tag_ids |-> "tag_ids"],
   invisible |->
     [title |-> "title", url |-> "url", description |-> "description_raw",
      salary |-> NoCol, location |-> "location", tag_ids |-> "tag_ids"]]

\* A CSV file is [ok, columns, rows]: ok is FALSE when pd.read_csv raises
\* (the file is missing or malformed); rows are records over columns.
Missing == [ok |-> FALSE, columns |-> {}, rows |-> <<>>]

\* One step of the loop over meta['map'] (app.py lines 91-97).  The frame
\* being built is a sequence of records over the columns set so far.  A
\* column taken from the file gives the frame the file's rows when the
\* frame has none yet (earlier scalar columns are then filled with NaN); a
\* scalar is broadcast over the rows the frame has.
StdStep(std, cols, df, company, std_col) ==
  LET csv_col == ColumnMap[company][std_col]
      n == Len(df.rows)
      grown == IF Len(std) = 0 /\ n > 0
               THEN [i \in 1..n |-> [c \in cols |-> NaN]]
               ELSE std
      scalar == IF std_col = "location" /\ company \in {"afterquery", "handshake"}
                THEN Str(Remote)
                ELSE NaN
  IN  IF csv_col # NoCol /\ csv_col \in df.columns
      THEN [i \in 1..Len(grown) |->
              [c \in cols \cup {std_col} |->
                 IF c = std_col THEN df.rows[i][csv_col] ELSE grown[i][c]]]
      ELSE [i \in 1..Len(std) |->
              [c \in cols \cup {std_col} |->
                 IF c = std_col THEN scalar ELSE std[i][c]]]

RECURSIVE StdFrame(_, _, _)
\* the frame after the first k columns of the map
StdFrame(df, company, k) ==
  IF k = 0 THEN <<>>
  ELSE StdStep(StdFrame(df, company, k - 1), {StdCols[j] : j \in 1..(k - 1)},
               df, company, StdCols[k])

\* std['company'] = company
WithCompany(std, company) ==
  [i \in 1..Len(std) |->
     [c \in (DOMAIN std[i]) \cup {"company"} |->
        IF c = "company" THEN company ELSE std[i][c]]]

RECURSIVE AllJobs(_, _)
\* all_jobs after the first k companies: one frame per file that was read
AllJobs(files, k) ==
  IF k = 0 THEN <<>>
  ELSE LET company == Companies[k]
       IN  IF files[company].ok
           THEN Append(AllJobs(files, k - 1),
                       WithCompany(StdFrame(files[company], company, Len(StdCols)), company))
           ELSE AllJobs(files, k - 1)

RECURSIVE Concat(_)
\* pd.concat(frames, ignore_index=True) of a non-empty list of frames
Concat(frames) == IF frames = <<>> THEN <<>> ELSE Head(frames) \o Concat(Tail(frames))

----------------------------------------------------------------------------
(* The module-level state *)

VARIABLES
  files,      \* the CSV file of each company, as pd.read_csv finds it
  pc,         \* the module-level statement to run next; "serve" once imported
  jobs_df,    \* the job table: a sequence of rows, each a record over its columns
  tags_dict,  \* the tag catalog
  resp,       \* the response of the last query
  arg,        \* the argument of the function under test (function specifications)
  ret,        \* its result
  tj_rows,    \* tag_jobs: rows, the rows of the input CSV, each a dict (a sequence of <<key, value>>)
  tj_start,   \* tag_jobs: start, the loop variable of the batch loop
  tj_tags,    \* tag_jobs: all_tags, the tag entries of the batches so far
  tj_out,     \* tag_jobs: the lines of the output CSV; <<>> for no file
  tj_calls    \* tag_jobs: the calls of generate: the batch of each and the tag entries it gave

\* the state of tag_jobs (src/augment/add_tags.py)
tagging == <<tj_rows, tj_start, tj_tags, tj_out, tj_calls>>

vars == <<files, pc, jobs_df, tags_dict, resp, arg, ret, tagging>>

NoResp == [status |-> 0]
NoArg == <<>>

\* df[col] = values, one value for every row
WithColumn(df, col, values) ==
  [i \in 1..Len(df) |->
     [c \in (DOMAIN df[i]) \cup {col} |-> IF c = col THEN values[i] ELSE df[i][c]]]

\* jobs_df = load_job_data(): pd.concat raises ValueError on an empty list,
\* which nothing catches, so the import fails
LoadJobData ==
  /\ pc = "load"
  /\ LET all_jobs == AllJobs(files, Len(Companies))
     IN  IF all_jobs = <<>>
         THEN /\ pc' = "crashed"
              /\ UNCHANGED jobs_df
         ELSE /\ jobs_df' = Concat(all_jobs)
              /\ pc' = "ids"
  /\ UNCHANGED <<files, tags_dict, resp, arg, ret, tagging>>

\* f"{i:06d}"
Pad6(ds) == [i \in 1..(6 - Len(ds)) |-> "0"] \o ds

\* JobId without the padding to 6 digits
JobId_Unpadded(i) == <<"j", "o", "b", "_">> \o Digits(i)

\* f"job_{i:06d}"
JobId(i) == <<"j", "o", "b", "_">> \o Pad6(Digits(i))

\* jobs_df['id'] = [f"job_{i:06d}" for i in range(len(jobs_df))]
AssignIds ==
  /\ pc = "ids"
  /\ jobs_df' = WithColumn(jobs_df, "id", [i \in 1..Len(jobs_df) |-> JobId(i - 1)])
  /\ pc' = "tags_dict"
  /\ UNCHANGED <<files, tags_dict, resp, arg, ret, tagging>>

TagName(i) == <<"name", i>>

\* the built-in catalog of load_tags, used when augment/Tags.md cannot be read
BuiltinTags == [i \in 1..FallbackTag |-> TagName(i)]

\* a catalog read from a Tags.md that lists the tags 1..MaxTag
FileTags == [i \in 1..MaxTag |-> TagName(i)]

\* tags_dict = load_tags()
LoadTags ==
  /\ pc = "tags_dict"
  /\ tags_dict' \in {BuiltinTags, FileTags}
  /\ pc' = "salary"
  /\ UNCHANGED <<files, jobs_df, resp, arg, ret, tagging>>

salary_min_of(r) == extract_salary_range(r.salary)[1]
salary_max_of(r) == extract_salary_range(r.salary)[2]

\* jobs_df['salary_min'], jobs_df['salary_max'] = zip(*jobs_df['salary'].apply(...)):
\* with no rows zip yields nothing and the unpacking raises ValueError
ProcessSalary ==
  /\ pc = "salary"
  /\ IF Len(jobs_df) = 0
     THEN /\ pc' = "crashed"
          /\ UNCHANGED jobs_df
     ELSE /\ jobs_df' =
               WithColumn(
                 WithColumn(jobs_df, "salary_min",
                            [i \in 1..Len(jobs_df) |-> salary_min_of(jobs_df[i])]),
                 "salary_max", [i \in 1..Len(jobs_df) |-> salary_max_of(jobs_df[i])])
          /\ pc' = "salary_avg"
  /\ UNCHANGED <<files, tags_dict, resp, arg, ret, tagging>>

RECURSIVE SumVals(_)
SumVals(xs) == IF xs = <<>> THEN 0 ELSE Val(Head(xs)) + SumVals(Tail(xs))

\* mean(axis=1) of one row: NaN values are skipped, and the mean of none is NaN
RowMean(xs) ==
  LET present == SelectSeq(xs, LAMBDA x : x # None)
  IN  IF present = <<>> THEN None ELSE Some(Frac(SumVals(present), Len(present)))

salary_avg_of(r) == RowMean(<<r.salary_min, r.salary_max>>)

\* jobs_df['salary_avg'] = jobs_df[['salary_min', 'salary_max']].mean(axis=1)
ProcessSalaryAvg ==
  /\ pc = "salary_avg"
  /\ jobs_df' = WithColumn(jobs_df, "salary_avg",
                           [i \in 1..Len(jobs_df) |-> salary_avg_of(jobs_df[i])])
  /\ pc' = "tag_list"
  /\ UNCHANGED <<files, tags_dict, resp, arg, ret, tagging>>

tag_list_of(r) == parse_tag_ids(r.tag_ids)

\* jobs_df['tag_list'] = jobs_df['tag_ids'].apply(parse_tag_ids)
ProcessTagList ==
  /\ pc = "tag_list"
  /\ jobs_df' = WithColumn(jobs_df, "tag_list",
                           [i \in 1..Len(jobs_df) |-> tag_list_of(jobs_df[i])])
  /\ pc' = "tag_names"
  /\ UNCHANGED <<files, tags_dict, resp, arg, ret, tagging>>

\* tags_dict.get(tag_id, f"Unknown ({tag_id})")
TagNameOf(dict, tag_id) == IF tag_id \in DOMAIN dict THEN dict[tag_id] ELSE <<"Unknown", tag_id>>

\* [tags_dict.get(tag_id, f"Unknown ({tag_id})") for tag_id in x]
tag_names_of(dict, r) == [k \in 1..Len(r.tag_list) |-> TagNameOf(dict, r.tag_list[k])]

\* ProcessTagNames with the server started before line 209
ProcessTagNames_ServedEarly ==
  /\ pc = "tag_names"
  /\ pc' = "serve"
  /\ UNCHANGED <<files, jobs_df, tags_dict, resp, arg, ret, tagging>>

\* jobs_df['tag_names'] = jobs_df['tag_list'].apply(lambda x: [...])
ProcessTagNames ==
  /\ pc = "tag_names"
  /\ jobs_df' = WithColumn(jobs_df, "tag_names",
                           [i \in 1..Len(jobs_df) |-> tag_names_of(tags_dict, jobs_df[i])])
  /\ pc' = "serve"
  /\ UNCHANGED <<files, tags_dict, resp, arg, ret, tagging>>

----------------------------------------------------------------------------
(* get_similar_jobs *)

TopN == 10

\* similarity * 100
Percent(sim) == Frac(sim.num * 100, sim.den)

FracGt(a, b) == a.num * b.den > b.num * a.den

\* round(x, 1) in tenths, for x >= 0: to the nearest tenth, a tie to the even one
Round1(x) ==
  LET q == (x.num * 10) \div x.den
      r == (x.num * 10) % x.den
  IN  IF 2 * r > x.den \/ (2 * r = x.den /\ q % 2 = 1) THEN q + 1 ELSE q

Reverse(s) == [i \in 1..Len(s) |-> s[Len(s) + 1 - i]]

RECURSIVE InsertDesc(_, _)
\* x put behind every row of the sorted rows whose score is not smaller
InsertDesc(sorted, x) ==
  IF sorted = <<>> THEN <<x>>
  ELSE IF FracGt(x.similarity_score, Head(sorted).similarity_score) THEN <<x>> \o sorted
  ELSE <<Head(sorted)>> \o InsertDesc(Tail(sorted), x)

RECURSIVE StableSortDesc(_)
StableSortDesc(rows) ==
  IF rows = <<>> THEN <<>>
  ELSE InsertDesc(StableSortDesc(SubSeq(rows, 1, Len(rows) - 1)), rows[Len(rows)])

\* sort_values is called with its default kind, 'quicksort', which is not
\* stable: rows of equal score come out in an order the numpy build decides.
\* The model lets them come out in table order or in reverse table order.
TieOrders == {"keep", "reverse"}

\* sort_values('similarity_score', ascending=False)
sort_values(rows, tie) ==
  IF tie = "keep" THEN StableSortDesc(rows) ELSE StableSortDesc(Reverse(rows))

\* head(n)
head(rows, n) == SubSeq(rows, 1, IF Len(rows) < n THEN Len(rows) ELSE n)

\* pd.notna(x)
NotNa(c) == c.kind # "nan"

\* the truth value of a cell that is not NaN
Truthy(c) ==
  CASE c.kind = "str" -> c.s # <<>>
    [] c.kind \in {"int", "float"} -> c.n # 0
    [] OTHER -> FALSE

\* title, description and salary of the loop body (None when NaN), and its test
\* "not title and not description and not salary"
NoInformation(job) ==
  /\ ~(NotNa(job.title) /\ Truthy(job.title))
  /\ ~(NotNa(job.description) /\ Truthy(job.description))
  /\ ~(NotNa(job.salary) /\ Truthy(job.salary))

Literal(text) == Str(<<text>>)

\* x if x is present and truthy, else the literal
OrLiteral(c, text) == IF NotNa(c) /\ Truthy(c) THEN c ELSE Literal(text)

\* x if pd.notna(x), else the literal
NotNaOr(c, text) == IF NotNa(c) THEN c ELSE Literal(text)

SimilarEntry(job) ==
  [id |-> job.id,
   title |-> OrLiteral(job.title, "Title not available"),
   company |-> job.company,
   location |-> NotNaOr(job.location, "Remote"),
   description |-> OrLiteral(job.description, "Description not available"),
   salary |-> OrLiteral(job.salary, "Salary not specified"),
   salary_avg |-> job.salary_avg,
   url |-> job.url,
   tag_names |-> IF Len(job.tag_names) > 0 THEN job.tag_names ELSE <<"No tags">>,
   similarity_score |-> Round1(job.similarity_score)]

RECURSIVE SimilarEntries(_)
\* the loop over competitor_jobs.iterrows()
SimilarEntries(rows) ==
  IF rows = <<>> THEN <<>>
  ELSE (IF NoInformation(Head(rows)) THEN <<>> ELSE <<SimilarEntry(Head(rows))>>)
       \o SimilarEntries(Tail(rows))

\* TopCompetitors without the filter on the company
TopCompetitors_AllCompanies(df, target_job, tie) ==
  LET target_tags == target_job.tag_list
      score(r) == Percent(calculate_similarity(target_tags, r.tag_list))
      scored == WithColumn(df, "similarity_score", [i \in 1..Len(df) |-> score(df[i])])
      overlapping == SelectSeq(scored, LAMBDA r : r.similarity_score.num > 0)
  IN  head(sort_values(overlapping, tie), TopN)

\* TopCompetitors without the filter on the score
TopCompetitors_AnyScore(df, target_job, tie) ==
  LET target_tags == target_job.tag_list
      target_company == target_job.company
      score(r) == Percent(calculate_similarity(target_tags, r.tag_list))
      competitor_jobs == SelectSeq(df, LAMBDA r : r.company # target_company)
      scored == WithColumn(competitor_jobs, "similarity_score",
                           [i \in 1..Len(competitor_jobs) |-> score(competitor_jobs[i])])
  IN  head(sort_values(scored, tie), TopN)

\* frames[name][col] = values, which also writes the column on the module's
\* table, as it would if the frame were the table itself and not a copy
SetColumn_Shared(frames, name, col, values) ==
  [f \in DOMAIN frames |->
     IF f = name THEN WithColumn(frames[f], col, values)
     ELSE WithColumn(frames[f], col, [i \in 1..Len(frames[f]) |-> Zero])]

\* frames[name][col] = values: the frames a handler works on are the module's
\* table jobs_df and the frames the handler made itself; a selection df[mask]
\* and df.copy() make a new frame
SetColumn(frames, name, col, values) ==
  [frames EXCEPT ![name] = WithColumn(@, col, values)]

\* the frames after lines 383-388
ScoredFrames(df, target_job) ==
  LET target_tags == target_job.tag_list
      target_company == target_job.company
      score(r) == Percent(calculate_similarity(target_tags, r.tag_list))
      competitor_jobs == SelectSeq(df, LAMBDA r : r.company # target_company)
  IN  SetColumn([jobs_df |-> df, competitor_jobs |-> competitor_jobs],
                "competitor_jobs", "similarity_score",
                [i \in 1..Len(competitor_jobs) |-> score(competitor_jobs[i])])

\* competitor_jobs after line 394
TopCompetitors(df, target_job, tie) ==
  LET scored == ScoredFrames(df, target_job).competitor_jobs
      overlapping == SelectSeq(scored, LAMBDA r : r.similarity_score.num > 0)
  IN  head(sort_values(overlapping, tie), TopN)

\* lines 378-437 of get_similar_jobs, for the target job found; no statement
\* of them raises on the tables of the model
SimilarJobsFound(df, target_job, tie) ==
  LET competitor_jobs == TopCompetitors(df, target_job, tie)
      match_type ==
        IF Len(competitor_jobs) > 0
        THEN IF competitor_jobs[1].similarity_score = Frac(100, 1)
             THEN "exact" ELSE "similar"
        ELSE "none"
  IN  [status |-> 200,
       target_job |->
         [id |-> target_job.id,
          title |-> NotNaOr(target_job.title, "No title"),
          company |-> target_job.company,
          tag_names |-> IF Len(target_job.tag_names) > 0
                        THEN target_job.tag_names ELSE <<"No tags">>],
       similar_jobs |-> SimilarEntries(competitor_jobs),
       match_type |-> match_type]

\* SimilarJobsResponse without the test of lines 375-376: iloc[0] of the empty
\* selection raises IndexError, which the except clause answers
SimilarJobsResponse_NoLookupTest(df, job_id, tie) ==
  LET found == SelectSeq(df, LAMBDA r : r.id = job_id)
  IN  IF found = <<>> THEN [status |-> 500, error |-> "Error loading similar jobs"]
      ELSE SimilarJobsFound(df, found[1], tie)

\* the body of get_similar_jobs
SimilarJobsResponse(df, job_id, tie) ==
  LET found == SelectSeq(df, LAMBDA r : r.id = job_id)
  IN  IF found = <<>> THEN [status |-> 404, error |-> "Job not found"]
      ELSE SimilarJobsFound(df, found[1], tie)

\* the ids a query asks for: those of the first MaxAsked rows of the table
\* and of one row the table does not hold (row numbers from 0), and texts
\* that are the id of no row (a bare number, an id without padding, an id in
\* capitals)
AskedIds ==
  {JobId(i) : i \in {i \in 0..Len(jobs_df) : i < MaxAsked \/ i = Len(jobs_df)}}
    \cup {<<"0">>, <<"j", "o", "b", "_", "0">>,
          <<"J", "O", "B", "_", "0", "0", "0", "0", "0", "0">>}

\* a handler runs when the response of the query before it was sent: the
\* handlers share nothing but the table and the catalog, so that queries
\* answered by parallel threads are taken one at a time
Serving == pc = "serve" /\ resp = NoResp

\* the response is sent
Send ==
  /\ pc = "serve"
  /\ resp # NoResp
  /\ resp' = NoResp
  /\ UNCHANGED <<files, pc, jobs_df, tags_dict, arg, ret, tagging>>

\* GET /api/similar-jobs/<job_id>
GetSimilarJobs ==
  /\ Serving
  /\ \E job_id \in AskedIds, tie \in TieOrders :
       /\ resp' = [query |-> "similar-jobs", job_id |-> job_id]
                    @@ SimilarJobsResponse(jobs_df, job_id, tie)
       /\ jobs_df' = LET found == SelectSeq(jobs_df, LAMBDA r : r.id = job_id)
                     IN  IF found = <<>> THEN jobs_df
                         ELSE ScoredFrames(jobs_df, found[1]).jobs_df
  /\ UNCHANGED <<files, pc, tags_dict, arg, ret, tagging>>

----------------------------------------------------------------------------
(* Series aggregates *)

\* the float NaN, as the fraction 0 / 0
NaNFloat == [num |-> 0, den |-> 0]

FracAdd(a, b) == Frac(a.num * b.den + b.num * a.den, a.den * b.den)

FracMul(a, b) == Frac(a.num * b.num, a.den * b.den)

RECURSIVE FracSum(_)
FracSum(xs) == IF xs = <<>> THEN Zero ELSE FracAdd(Head(xs), FracSum(Tail(xs)))

\* df[col]
Column(df, col) == [i \in 1..Len(df) |-> df[i][col]]

\* the values of a column that are not NaN
Present(col) ==
  LET present == SelectSeq(col, LAMBDA x : x # None)
  IN  [i \in 1..Len(present) |-> Val(present[i])]

\* the values of the column salary_min or salary_max that are not NaN, as
\* fractions
Floats(col) == [i \in 1..Len(Present(col)) |-> Frac(Present(col)[i], 1)]

\* Series.mean() of the values that are not NaN: the mean of none is NaN
mean(xs) ==
  IF xs = <<>> THEN NaNFloat ELSE FracMul(FracSum(xs), Frac(1, Len(xs)))

\* Series.min(), Series.max()
min(xs) ==
  IF xs = <<>> THEN NaNFloat
  ELSE CHOOSE x \in Range(xs) : \A y \in Range(xs) : ~FracGt(x, y)

max(xs) ==
  IF xs = <<>> THEN NaNFloat
  ELSE CHOOSE x \in Range(xs) : \A y \in Range(xs) : ~FracGt(y, x)

\* Series.std(), the sample standard deviation (ddof = 1), kept as its
\* square: (n * sum(x^2) - sum(x)^2) / (n * (n - 1)); NaN for fewer than two values
std(xs) ==
  LET n == Len(xs)
      squares == [i \in 1..n |-> FracMul(xs[i], xs[i])]
      s == FracSum(xs)
      a == FracMul(Frac(n, 1), FracSum(squares))
      b == FracMul(s, s)
  IN  IF n < 2 THEN [squared |-> NaNFloat]
      ELSE [squared |-> FracMul(Frac(a.num * b.den - b.num * a.den, a.den * b.den),
                                Frac(1, n * (n - 1)))]

RECURSIVE InsertAsc(_, _)
InsertAsc(sorted, x) ==
  IF sorted = <<>> THEN <<x>>
  ELSE IF FracGt(Head(sorted), x) THEN <<x>> \o sorted
  ELSE <<Head(sorted)>> \o InsertAsc(Tail(sorted), x)

RECURSIVE SortAsc(_)
SortAsc(xs) == IF xs = <<>> THEN <<>> ELSE InsertAsc(SortAsc(Tail(xs)), Head(xs))

\* Series.median(): the middle value, or the mean of the two middle values
median(xs) ==
  LET sorted == SortAsc(xs)
      n == Len(xs)
  IN  IF n = 0 THEN NaNFloat
      ELSE IF n % 2 = 1 THEN sorted[(n + 1) \div 2]
      ELSE FracMul(FracAdd(sorted[n \div 2], sorted[(n \div 2) + 1]), Frac(1, 2))

\* Series.unique(), as a set
unique(col) == Range(col)

----------------------------------------------------------------------------
(* get_stats, get_tags *)

\* the body of get_stats
StatsResponse(df) ==
  [status |-> 200,
   total_jobs |-> Len(df),
   companies |->
     [company \in unique(Column(df, "company")) |->
        LET company_jobs == SelectSeq(df, LAMBDA r : r.company = company)
        IN  [total_jobs |-> Len(company_jobs),
             avg_salary |-> mean(Present(Column(company_jobs, "salary_avg"))),
             salary_range |-> [min |-> min(Floats(Column(company_jobs, "salary_min"))),
                               max |-> max(Floats(Column(company_jobs, "salary_max")))]]]]

\* GET /api/stats
GetStats ==
  /\ Serving
  /\ resp' = [query |-> "stats"] @@ StatsResponse(jobs_df)
  /\ UNCHANGED <<files, pc, jobs_df, tags_dict, arg, ret, tagging>>

\* GET /api/tags
GetTags ==
  /\ Serving
  /\ resp' = [query |-> "tags", status |-> 200, tags |-> tags_dict]
  /\ UNCHANGED <<files, pc, jobs_df, tags_dict, arg, ret, tagging>>

----------------------------------------------------------------------------
(* get_jobs *)

\* the response of Flask to a handler that raises
InternalServerError == [status |-> 500, error |-> "Internal Server Error"]

\* clean_value: Python's None for NaN
clean_value(value) ==
  IF value.kind = "nan" THEN [kind |-> "none", s |-> <<>>, n |-> 0] ELSE value

\* the longest description that is listed whole
MaxDescription == 200

\* job_dict of lines 272-282; the table has a 'url' column and none named
\* 'absolute_url' or 'Detail URL'
job_dict(job) ==
  [id |-> job.id,
   title |-> clean_value(job.title),
   company |-> job.company,
   location |-> clean_value(job.location),
   salary |-> clean_value(job.salary),
   salary_avg |-> job.salary_avg,
   description |->
     LET c == job.description
     IN  IF Len(PyStr(IF c.kind = "nan" THEN Str(<<>>) ELSE c)) > MaxDescription
         THEN Str(SubSeq(c.s, 1, MaxDescription) \o <<".", ".", ".">>)
         ELSE clean_value(c),
   tag_names |-> job.tag_names,
   url |-> clean_value(job.url)]

\* re.search(pat, s) finds a match: the compiled pattern matches the text
\* from some position i on, a dot standing for any character and every
\* other character for itself
Search(pat, s) ==
  \E i \in 1..(Len(s) + 1) :
    /\ i + Len(pat) - 1 <= Len(s)
    /\ \A k \in 1..Len(pat) : pat[k] = "." \/ pat[k] = s[i + k - 1]

\* Series.str of a column exists: the column holds text.  The title and the
\* description of every file are read from the file, so a column without
\* text has a numeric dtype and .str raises AttributeError, unless a file
\* without rows gave the column the object dtype (object_dtype: pd.concat
\* counts the columns of empty frames or not, with the pandas version)
HasStr(df, col, object_dtype) ==
  object_dtype \/ \E i \in 1..Len(df) : df[i][col].kind = "str"

\* df[col].str.lower().str.contains(search, na=False) of one row
str_contains(c, search) == c.kind = "str" /\ Search(search, Lower(c.s))

\* the body of get_jobs; re.compile(search) raises for an opening parenthesis,
\* which no character of the model closes
JobsResponse(df, company, tag_filter, search_arg, object_dtype) ==
  LET search == Lower(search_arg)
      by_company == IF company # "all"
                    THEN SelectSeq(df, LAMBDA r : r.company = company)
                    ELSE df
      tag_id == IntOfText(tag_filter)
      by_tag == IF tag_filter # <<"a", "l", "l">>
                THEN SelectSeq(by_company, LAMBDA r : Val(tag_id) \in Range(r.tag_list))
                ELSE by_company
      by_search == IF search # <<>>
                   THEN SelectSeq(by_tag, LAMBDA r :
                          str_contains(r.title, search) \/ str_contains(r.description, search))
                   ELSE by_tag
  IN  IF tag_filter # <<"a", "l", "l">> /\ tag_id = None THEN InternalServerError
      ELSE IF search # <<>>
                /\ (\/ ~HasStr(df, "title", object_dtype)
                    \/ (\E i \in 1..Len(search) : search[i] = "(")
                    \/ ~HasStr(df, "description", object_dtype))
      THEN InternalServerError
      ELSE [status |-> 200,
            jobs |-> [i \in 1..Len(by_search) |-> job_dict(by_search[i])]]

\* the listings asked of the table: of a table of at most MaxRows rows every
\* listing with at most one argument and some with all three, of a larger
\* table the listing with no argument and one with a search text
AskedJobs ==
  LET all == <<"a", "l", "l">>
      AskedCompanies == {"all", Companies[1], Companies[2], "nosuch"}
      AskedTags == {all, <<"1">>, <<"2">>, <<"x">>}
      AskedSearches == {<<>>, <<"t">>, <<"T">>, <<".">>, <<"(">>}
  IN  IF Len(jobs_df) <= MaxRows
      THEN {<<c, all, <<>> >> : c \in AskedCompanies}
             \cup {<<"all", g, <<>> >> : g \in AskedTags}
             \cup {<<"all", all, s>> : s \in AskedSearches}
             \cup {<<Companies[1], <<"1">>, <<"T">> >>, <<Companies[2], <<"2">>, <<".">> >>,
                   <<"nosuch", <<"x">>, <<"(">> >>}
      ELSE {<<"all", all, <<>> >>, <<"all", all, <<"t">> >>}

\* GET /api/jobs; object_dtype is open when some file was read and holds no row
GetJobs ==
  /\ Serving
  /\ \E q \in AskedJobs,
        object_dtype \in (IF \E c \in Range(Companies) : files[c].ok /\ files[c].rows = <<>>
                          THEN BOOLEAN ELSE {FALSE}) :
       resp' = [query |-> "jobs", company |-> q[1], tag |-> q[2], search |-> q[3]]
               @@ JobsResponse(jobs_df, q[1], q[2], q[3], object_dtype)
  /\ UNCHANGED <<files, pc, jobs_df, tags_dict, arg, ret, tagging>>

----------------------------------------------------------------------------
(* get_company_analysis *)

\* the value, or None without salary data
IfAny(salary_data, value) == IF Len(salary_data) > 0 THEN Some(value) ELSE None

RECURSIVE Extend(_)
\* all_tags after the loop of lines 305-306
Extend(tag_lists) ==
  IF tag_lists = <<>> THEN <<>> ELSE Head(tag_lists) \o Extend(Tail(tag_lists))

RECURSIVE Keys(_)
\* the keys of Counter(all_tags), in the order in which they were first counted
Keys(all_tags) ==
  IF all_tags = <<>> THEN <<>>
  ELSE LET before == Keys(SubSeq(all_tags, 1, Len(all_tags) - 1))
           last == all_tags[Len(all_tags)]
       IN  IF last \in Range(before) THEN before ELSE Append(before, last)

\* Counter(all_tags).items(), in the order of the keys
Counter(all_tags) ==
  [k \in 1..Len(Keys(all_tags)) |->
     <<Keys(all_tags)[k],
       Cardinality({i \in 1..Len(all_tags) : all_tags[i] = Keys(all_tags)[k]})>>]

RECURSIVE InsertByCount(_, _)
\* x put behind every item of the sorted items whose count is not smaller
InsertByCount(sorted, x) ==
  IF sorted = <<>> THEN <<x>>
  ELSE IF x[2] > Head(sorted)[2] THEN <<x>> \o sorted
  ELSE <<Head(sorted)>> \o InsertByCount(Tail(sorted), x)

RECURSIVE SortByCount(_)
SortByCount(items) ==
  IF items = <<>> THEN <<>>
  ELSE InsertByCount(SortByCount(SubSeq(items, 1, Len(items) - 1)), items[Len(items)])

\* Counter.most_common(n): heapq.nlargest(n, items, key=count), which gives
\* the items of equal count in the order of the keys
most_common(items, n) == head(SortByCount(items), n)

\* the body of get_company_analysis
CompanyAnalysisResponse(df, dict) ==
  [status |-> 200,
   analysis |->
     [company \in unique(Column(df, "company")) |->
        LET company_jobs == SelectSeq(df, LAMBDA r : r.company = company)
            salary_data == SelectSeq(company_jobs, LAMBDA r : r.salary_avg # None)
            all_tags == Extend(Column(company_jobs, "tag_list"))
            top == most_common(Counter(all_tags), TopN)
        IN  [total_jobs |-> Len(company_jobs),
             avg_salary |-> IfAny(salary_data, mean(Present(Column(salary_data, "salary_avg")))),
             salary_std |-> IfAny(salary_data, std(Present(Column(salary_data, "salary_avg")))),
             top_tags |-> [k \in 1..Len(top) |-> <<TagNameOf(dict, top[k][1]), top[k][2]>>],
             salary_distribution |->
               [min |-> IfAny(salary_data, min(Floats(Column(salary_data, "salary_min")))),
                max |-> IfAny(salary_data, max(Floats(Column(salary_data, "salary_max")))),
                median |-> IfAny(salary_data, median(Present(Column(salary_data, "salary_avg"))))]]]]

\* GET /api/company-analysis
GetCompanyAnalysis ==
  /\ Serving
  /\ resp' = [query |-> "company-analysis"] @@ CompanyAnalysisResponse(jobs_df, tags_dict)
  /\ UNCHANGED <<files, pc, jobs_df, tags_dict, arg, ret, tagging>>

----------------------------------------------------------------------------
(* get_mercor_competitiveness *)

\* the tags of the rows, after the loops of lines 338-344
TagsOf(rows) == UNION {Range(r.tag_list) : r \in Range(rows)}

\* the names of a set of tags; the list of the response has them in the
\* iteration order of the set, which the model leaves open
Names(tags, dict) == {TagNameOf(dict, tag_id) : tag_id \in tags}

\* the body of get_mercor_competitiveness; the table of a served module has a row
MercorCompetitivenessResponse(df, dict) ==
  LET mercor_jobs == SelectSeq(df, LAMBDA r : r.company = "mercor")
      competitors == SelectSeq(df, LAMBDA r : r.company # "mercor")
      mercor_salaries == Column(mercor_jobs, "salary_avg")
      competitor_salaries == Column(competitors, "salary_avg")
      mercor_tags == TagsOf(mercor_jobs)
      competitor_tags == TagsOf(competitors)
  IN  [status |-> 200,
       salary_comparison |->
         [mercor_avg |-> IfAny(Present(mercor_salaries), mean(Present(mercor_salaries))),
          competitor_avg |-> IfAny(Present(competitor_salaries), mean(Present(competitor_salaries))),
          mercor_median |-> IfAny(Present(mercor_salaries), median(Present(mercor_salaries))),
          competitor_median |-> IfAny(Present(competitor_salaries), median(Present(competitor_salaries)))],
       tag_analysis |->
         [overlap_tags |-> Names(mercor_tags \cap competitor_tags, dict),
          unique_mercor_tags |-> Names(mercor_tags \ competitor_tags, dict),
          unique_competitor_tags |-> Names(competitor_tags \ mercor_tags, dict)],
       market_share |->
         [mercor_jobs |-> Len(mercor_jobs),
          total_jobs |-> Len(df),
          mercor_percentage |-> Frac(Len(mercor_jobs) * 100, Len(df))]]

\* GET /api/mercor-competitiveness
GetMercorCompetitiveness ==
  /\ Serving
  /\ resp' = [query |-> "mercor-competitiveness"]
               @@ MercorCompetitivenessResponse(jobs_df, tags_dict)
  /\ UNCHANGED <<files, pc, jobs_df, tags_dict, arg, ret, tagging>>

----------------------------------------------------------------------------
(* The files the program starts from *)

CompanySet == Range(Companies)

\* the canonical column a file column of the company feeds
StdColOf(company, col) == CHOOSE c \in Range(StdCols) : ColumnMap[company][c] = col

\* the file of a company whose rows hold the given cells, under the column
\* names the company's scraper writes
FileOf(company, cells) ==
  LET columns == {ColumnMap[company][c] : c \in Range(StdCols)} \ {NoCol}
  IN  [ok |-> TRUE,
       columns |-> columns,
       rows |-> [i \in 1..Len(cells) |->
                   [col \in columns |-> cells[i][StdColOf(company, col)]]]]

Cells(title, description, salary, tag_ids) ==
  [title |-> title, url |-> Str(Text_u), description |-> description,
   salary |-> salary, location |-> Str(Text_l), tag_ids |-> tag_ids]

\* a posting with everything, tag 1
RowFull == Cells(Str(Text_t), Str(Text_d), Str(<<"3", "-", "6", "/", "h", "r">>), Str(<<"1">>))
\* a posting with no title, no description and no salary, tag 1
RowBare == Cells(NaN, NaN, NaN, Str(<<"1">>))
\* a range written high to low, tags 1 and 2
RowHighLow == Cells(Str(Text_t), NaN, Str(<<"6", "-", "3">>), Str(<<"1", ",", "2">>))
\* no salary given, a tag text without a number
RowNoTags == Cells(NaN, Str(Text_d), Str(NotSpecified), Str(<<"a", ",", "b">>))
\* a salary text without a number, no tag text
RowNoSalary == Cells(Str(Text_t), NaN, Str(<<"k">>), NaN)
\* numeric cells: salary 5, tag 2
RowNumeric == Cells(Str(Text_t), Str(Text_d), IntCell(5), FloatCell(2))

RowKinds == {RowFull, RowBare, RowHighLow, RowNoTags, RowNoSalary, RowNumeric}

LargeKinds == {RowFull, RowBare, RowHighLow, RowNumeric}

\* the rows of a layout that belong to the k-th company
RowsOf(layout, k) ==
  LET mine == SelectSeq(layout, LAMBDA x : x[1] = k)
  IN  [i \in 1..Len(mine) |-> mine[i][2]]

\* Small tables: the files hold at most MaxRows rows together, of any kind,
\* and the file of a company that has no row is missing.
InitSmall ==
  \E n \in 0..MaxRows : \E layout \in [1..n -> (1..Len(Companies)) \X RowKinds] :
    /\ \A i \in 1..(Len(layout) - 1) : layout[i][1] <= layout[i + 1][1]
    /\ files = [c \in CompanySet |->
                  LET k == CHOOSE j \in 1..Len(Companies) : Companies[j] = c
                  IN  IF RowsOf(layout, k) = <<>> THEN Missing
                      ELSE FileOf(c, RowsOf(layout, k))]

\* Large tables: one posting of the first company, and two more files that
\* hold up to MaxCopies equal rows each; the other files are missing.
InitLarge ==
  \E k1 \in LargeKinds, k2 \in LargeKinds, k3 \in LargeKinds :
    \E n2 \in 0..MaxCopies, n3 \in 0..MaxCopies :
      files = [c \in CompanySet |->
                 CASE c = Companies[1] -> FileOf(c, <<k1>>)
                   [] c = Companies[2] -> FileOf(c, [i \in 1..n2 |-> k2])
                   [] c = Companies[3] -> FileOf(c, [i \in 1..n3 |-> k3])
                   [] OTHER -> Missing]

Init ==
  /\ InitSmall \/ InitLarge
  /\ pc = "load"
  /\ jobs_df = <<>>
  /\ tags_dict = <<>>
  /\ resp = NoResp
  /\ arg = NoArg
  /\ ret = NoArg
  /\ tj_rows = <<>> /\ tj_start = 0 /\ tj_tags = <<>> /\ tj_out = <<>> /\ tj_calls = <<>>

Next ==
  \/ LoadJobData
  \/ AssignIds
  \/ LoadTags
  \/ ProcessSalary
  \/ ProcessSalaryAvg
  \/ ProcessTagList
  \/ ProcessTagNames
  \/ GetStats
  \/ GetJobs
  \/ GetTags
  \/ GetCompanyAnalysis
  \/ GetMercorCompetitiveness
  \/ GetSimilarJobs
  \/ Send

Spec == Init /\ [][Next]_vars

----------------------------------------------------------------------------
(* The functions on their own *)

Idle ==
  /\ files = [c \in CompanySet |-> Missing]
  /\ jobs_df = <<>>
  /\ tags_dict = <<>>
  /\ resp = NoResp
  /\ tj_rows = <<>> /\ tj_start = 0 /\ tj_tags = <<>> /\ tj_out = <<>> /\ tj_calls = <<>>

TagChars == {"1", "2", ",", "a", " ", "-"}

NumCells == {IntCell(n) : n \in 0..MaxNum} \cup {FloatCell(n) : n \in 0..MaxNum}

\* the inputs of parse_tag_ids: a missing cell, a numeric cell, or a text
\* of at most MaxTagLen characters
TagInput(c) ==
  \/ c \in {NaN} \cup NumCells
  \/ \E k \in 0..MaxTagLen : \E s \in [1..k -> TagChars] : c = Str(s)

InitTags == Idle /\ pc = "call" /\ TagInput(arg) /\ ret = NoArg

CallParseTagIds ==
  /\ pc = "call"
  /\ ret' = parse_tag_ids(arg)
  /\ pc' = "return"
  /\ UNCHANGED <<files, jobs_df, tags_dict, resp, arg, tagging>>

SpecTags == InitTags /\ [][CallParseTagIds]_vars

RECURSIVE Flatten(_)
Flatten(ps) == IF ps = <<>> THEN <<>> ELSE Head(ps) \o Flatten(Tail(ps))

CorePieces ==
  {<<"$">>, <<"1">>, <<"2">>, <<",">>, <<"-">>, <<" ">>, <<"/", "h", "r">>, <<"k">>}

AllPieces ==
  CorePieces \cup {<<EnDash>>, <<"/", "H", "R">>, <<"h", "o", "u", "r", "l", "y">>,
                   <<"3", "0">>, NotSpecified}

\* the inputs of extract_salary_range: a missing cell, a numeric cell, or a
\* text of at most MaxPieces core pieces or at most MaxWidePieces pieces
SalaryInput(c) ==
  \/ c \in {NaN} \cup NumCells
  \/ \E k \in 0..MaxPieces : \E ps \in [1..k -> CorePieces] : c = Str(Flatten(ps))
  \/ \E k \in 0..MaxWidePieces : \E ps \in [1..k -> AllPieces] : c = Str(Flatten(ps))

InitSalary == Idle /\ pc = "call" /\ SalaryInput(arg) /\ ret = NoArg

CallExtractSalaryRange ==
  /\ pc = "call"
  /\ ret' = extract_salary_range(arg)
  /\ pc' = "return"
  /\ UNCHANGED <<files, jobs_df, tags_dict, resp, arg, tagging>>

SpecSalary == InitSalary /\ [][CallExtractSalaryRange]_vars

\* the inputs of calculate_similarity: two lists of at most MaxTagList tags
TagListPair(p) ==
  \E k1 \in 0..MaxTagList, k2 \in 0..MaxTagList :
    \E t1 \in [1..k1 -> 1..MaxTag], t2 \in [1..k2 -> 1..MaxTag] : p = <<t1, t2>>

InitSimilarity == Idle /\ pc = "call" /\ TagListPair(arg) /\ ret = NoArg

CallCalculateSimilarity ==
  /\ pc = "call"
  /\ ret' = calculate_similarity(arg[1], arg[2])
  /\ pc' = "return"
  /\ UNCHANGED <<files, jobs_df, tags_dict, resp, arg, tagging>>

SpecSimilarity == InitSimilarity /\ [][CallCalculateSimilarity]_vars

----------------------------------------------------------------------------
(* load_job_data on its own *)

\* a file of n rows that lacks the columns of the dropped fields and, with
\* decoy, holds the columns that feed no canonical field of the company,
\* although some carry the name of one
FileWith(company, n, dropped, decoy) ==
  LET mapped == {ColumnMap[company][c] : c \in Range(StdCols) \ dropped} \ {NoCol}
      decoys == (Range(StdCols) \cup {"extra"})
                  \ {ColumnMap[company][c] : c \in Range(StdCols)}
      columns == mapped \cup (IF decoy THEN decoys ELSE {})
      cells(i) ==
        [title |-> Str(<<"t", DigitChar[i]>>), url |-> Str(<<"u", DigitChar[i]>>),
         description |-> Str(<<"d", DigitChar[i]>>), salary |-> Str(<<DigitChar[i]>>),
         location |-> Str(<<"l", DigitChar[i]>>), tag_ids |-> Str(<<DigitChar[i]>>)]
  IN  [ok |-> TRUE,
       columns |-> columns,
       rows |-> [i \in 1..n |->
                   [col \in columns |->
                      IF col \in mapped THEN cells(i)[StdColOf(company, col)]
                      ELSE Str(<<"decoy">>)]]]

\* the files of load_job_data: every file is missing or complete, with one
\* row, but for one file of any shape with at most MaxFileRows rows, which
\* lacks the columns of none, one, the first four or all canonical fields
InitLoad ==
  /\ \E v \in CompanySet, full \in SUBSET CompanySet :
       \E n \in 0..MaxFileRows, decoy \in BOOLEAN, ok \in BOOLEAN,
          dropped \in {{}, {"title"}, {"title", "url", "description", "salary"},
                       Range(StdCols)} :
         files = [c \in CompanySet |->
                    IF c = v THEN (IF ok THEN FileWith(c, n, dropped, decoy) ELSE Missing)
                    ELSE IF c \in full THEN FileWith(c, 1, {}, FALSE)
                    ELSE Missing]
  /\ pc = "load"
  /\ jobs_df = <<>>
  /\ tags_dict = <<>>
  /\ resp = NoResp
  /\ arg = NoArg
  /\ ret = NoArg
  /\ tj_rows = <<>> /\ tj_start = 0 /\ tj_tags = <<>> /\ tj_out = <<>> /\ tj_calls = <<>>

SpecLoad == InitLoad /\ [][LoadJobData]_vars

----------------------------------------------------------------------------
(* tag_jobs (src/augment/add_tags.py) *)

\* A reply of generate is a text.  Its text is kept as the lines that
\* str.splitlines gives, and with what json.loads makes of it: json is
\* "list" for a text that is a JSON array, whose elements are then data, each
\* [kind |-> "tags", tags |-> a list of numbers] for an object with the key
\* "tags", [kind |-> "object"] for an object without it, or [kind |-> "int"]
\* for a number; for every other text json.loads raises JSONDecodeError or
\* gives a value that is no list, and parse_tags goes on to the lines.

\* parse_tags(raw, expected_rows): the tag entries, or the exception raised.
\* expected_rows is not used by the code.
parse_tags(raw) ==
  LET \* the first element of data that is no object with the key "tags"
      stop == IF \E i \in 1..Len(raw.data) : raw.data[i].kind # "tags"
              THEN CHOOSE i \in 1..Len(raw.data) :
                     /\ raw.data[i].kind # "tags"
                     /\ \A j \in 1..(i - 1) : raw.data[j].kind = "tags"
              ELSE 0
      \* ",".join(map(str, d["tags"])) if d["tags"] else "28"
      joined(d) ==
        IF d.tags = <<>> THEN <<"2", "8">>
        ELSE Flatten([i \in 1..(2 * Len(d.tags) - 1) |->
                        IF i % 2 = 1 THEN Digits(d.tags[(i + 1) \div 2]) ELSE <<",">>])
      \* m.group("ids").strip() of _tag_line: the line without the whitespace
      \* around it and without a leading number before '.', ')' or '-'; when
      \* nothing follows the number and its sign the pattern matches without
      \* the optional group
      ids(line) ==
        LET s == Strip(line)
            d == DigitsEnd(s, 1)
            p == SpacesEnd(s, d)
            rest == IF d > 1 /\ p <= Len(s) /\ s[p] \in {".", ")", "-"}
                    THEN SubSeq(s, SpacesEnd(s, p + 1), Len(s))
                    ELSE <<>>
        IN  IF rest # <<>> THEN rest ELSE s
      \* re.fullmatch(r"\d{1,2}(,\s*\d{1,2})?$", x)
      fullmatch(x) ==
        LET a == DigitsEnd(x, 1)
            b == SpacesEnd(x, a + 1)
            c == DigitsEnd(x, b)
        IN  /\ a - 1 \in 1..2
            /\ \/ a = Len(x) + 1
               \/ a <= Len(x) /\ x[a] = "," /\ c - b \in 1..2 /\ c = Len(x) + 1
      CAT_TEXT_TO_ID ==
        {<<"n", "o", "n", "e", " ", "o", "f", " ", "t", "h", "e", " ", "a", "b", "o", "v", "e">>,
         <<"n", "o", "n", "e", " ", "o", "f", " ", "t", "h", "e", " ", "a", "b", "o", "v", "e",
           " ", "c", "a", "t", "e", "g", "o", "r", "i", "e", "s">>}
      \* what the loop of lines 156-171 appends for one line
      appended(line) ==
        IF Strip(line) = <<>> THEN <<>>
        ELSE IF Lower(ids(line)) \in CAT_TEXT_TO_ID THEN << <<"2", "8">> >>
        ELSE IF fullmatch(ids(line)) THEN <<Remove(ids(line), " ")>>
        ELSE <<>>
  IN  IF raw.json = "list" /\ stop = 0
      THEN [raised |-> "", tags |-> [i \in 1..Len(raw.data) |-> joined(raw.data[i])]]
      ELSE IF raw.json = "list" /\ raw.data[stop].kind = "int"
      THEN [raised |-> "TypeError", tags |-> <<>>]
      ELSE [raised |-> "",
            tags |-> Flatten([i \in 1..Len(raw.lines) |-> appended(raw.lines[i])])]

\* the replies of generate: a text of at most MaxReplyLines lines, without
\* whitespace around it (generate strips its result), or a JSON array of at
\* most MaxReplyLines elements, written on one line
Replies ==
  LET LineTexts == {<<"1", "7">>, <<"1", ".", " ", "7", ",", " ", "1", "8">>, <<>>, <<"a">>,
                    <<"N", "o", "n", "e", " ", "o", "f", " ", "t", "h", "e", " ",
                      "a", "b", "o", "v", "e">>}
      Elements == {[kind |-> "tags", tags |-> <<17>>], [kind |-> "tags", tags |-> <<7, 18>>],
                   [kind |-> "tags", tags |-> <<>>], [kind |-> "object", tags |-> <<>>],
                   [kind |-> "int", tags |-> <<>>]}
      Texts == UNION {[1..k -> LineTexts] : k \in 0..MaxReplyLines}
      Arrays == UNION {[1..k -> Elements] : k \in 0..MaxReplyLines}
  IN  {[json |-> "", data |-> <<>>, lines |-> ls] :
         ls \in {x \in Texts : x = <<>> \/ (x[1] # <<>> /\ x[Len(x)] # <<>>)}}
        \cup {[json |-> "list", data |-> d, lines |-> << <<"[", "]">> >>] : d \in Arrays}

\* the call tag_jobs(inp, out, batch_size): the input file holds at most
\* MaxInputRows rows under the header 'title', or 'title,tag_ids'; at most
\* one row holds a cell more than the header, which csv.DictReader keeps
\* under the key None; the output file exists or not; batch_size is any
\* integer from -1 to MaxBatch
InitTagJobs ==
  /\ files = [c \in CompanySet |-> Missing]
  /\ jobs_df = <<>>
  /\ tags_dict = <<>>
  /\ resp = NoResp
  /\ pc = "call"
  /\ \E n \in 0..MaxInputRows, tagged \in BOOLEAN, batch_size \in -1..MaxBatch,
        exists \in BOOLEAN :
       \E long \in {{}} \cup {{i} : i \in 1..n} :
         arg = [inp |-> [i \in 1..n |->
                           << <<"title", <<"t", DigitChar[i + 1]>> >> >>
                             \o (IF tagged THEN << <<"tag_ids", <<"9">> >> >> ELSE <<>>)
                             \o (IF i \in long THEN << <<"None", <<"x">> >> >> ELSE <<>>)],
                out |-> IF exists THEN << <<"old">> >> ELSE <<>>,
                batch_size |-> batch_size]
  /\ ret = NoArg
  /\ tj_out = arg.out
  /\ tj_rows = <<>> /\ tj_start = 0 /\ tj_tags = <<>> /\ tj_calls = <<>>

\* lines 180-184: the rows are read, and range(0, len(rows), batch_size) is
\* made, which raises ValueError for a step of 0
ReadRows ==
  /\ pc = "call"
  /\ tj_rows' = arg.inp
  /\ tj_tags' = <<>>
  /\ tj_start' = 0
  /\ IF arg.batch_size = 0
     THEN pc' = "raised" /\ ret' = <<"ValueError">>
     ELSE pc' = "batch" /\ ret' = ret
  /\ UNCHANGED <<files, jobs_df, tags_dict, resp, arg, tj_out, tj_calls>>

\* one turn of the batch loop without the test of line 194: the tag entries
\* of a batch are kept whatever their count
TagBatch_CountUnchecked ==
  /\ pc = "batch"
  /\ IF arg.batch_size > 0 THEN tj_start < Len(tj_rows) ELSE tj_start > Len(tj_rows)
  /\ LET stop == IF tj_start + arg.batch_size < Len(tj_rows)
                 THEN tj_start + arg.batch_size ELSE Len(tj_rows)
         batch == SubSeq(tj_rows, tj_start + 1, stop)
     IN  \E tags \in {[raised |-> "APIError", tags |-> <<>>]}
                       \cup {parse_tags(raw) : raw \in Replies} :
           /\ tj_calls' = Append(tj_calls, [batch |-> batch] @@ tags)
           /\ IF tags.raised # ""
              THEN /\ pc' = "raised"
                   /\ ret' = <<tags.raised>>
                   /\ UNCHANGED <<tj_tags, tj_start>>
              ELSE /\ tj_tags' = tj_tags \o tags.tags
                   /\ tj_start' = tj_start + arg.batch_size
                   /\ UNCHANGED <<pc, ret>>
  /\ UNCHANGED <<files, jobs_df, tags_dict, resp, arg, tj_rows, tj_out>>

\* lines 184-200: one turn of the batch loop; generate raises or gives a
\* reply, of which parse_tags makes the tag entries
TagBatch ==
  /\ pc = "batch"
  /\ IF arg.batch_size > 0 THEN tj_start < Len(tj_rows) ELSE tj_start > Len(tj_rows)
  /\ LET stop == IF tj_start + arg.batch_size < Len(tj_rows)
                 THEN tj_start + arg.batch_size ELSE Len(tj_rows)
         batch == SubSeq(tj_rows, tj_start + 1, stop)
     IN  \E tags \in {[raised |-> "APIError", tags |-> <<>>]}
                       \cup {parse_tags(raw) : raw \in Replies} :
           /\ tj_calls' = Append(tj_calls, [batch |-> batch] @@ tags)
           /\ IF tags.raised # ""
              THEN /\ pc' = "raised"
                   /\ ret' = <<tags.raised>>
                   /\ UNCHANGED <<tj_tags, tj_start>>
              ELSE IF Len(batch) # Len(tags.tags)
              THEN /\ pc' = "raised"
                   /\ ret' = <<"RuntimeError">>
                   /\ UNCHANGED <<tj_tags, tj_start>>
              ELSE /\ tj_tags' = tj_tags \o tags.tags
                   /\ tj_start' = tj_start + arg.batch_size
                   /\ UNCHANGED <<pc, ret>>
  /\ UNCHANGED <<files, jobs_df, tags_dict, resp, arg, tj_rows, tj_out>>

\* lines 202-203, after the last turn of the loop: zip(rows, all_tags,
\* strict=True) raises ValueError after the pairs of the shorter list
AssignTags ==
  /\ pc = "batch"
  /\ ~(IF arg.batch_size > 0 THEN tj_start < Len(tj_rows) ELSE tj_start > Len(tj_rows))
  /\ LET pairs == IF Len(tj_rows) < Len(tj_tags) THEN Len(tj_rows) ELSE Len(tj_tags)
         \* row["tag_ids"] = tag
         set(row, tag) ==
           IF \E j \in 1..Len(row) : row[j][1] = "tag_ids"
           THEN [j \in 1..Len(row) |-> IF row[j][1] = "tag_ids" THEN <<"tag_ids", tag>> ELSE row[j]]
           ELSE Append(row, <<"tag_ids", tag>>)
     IN  /\ tj_rows' = [i \in 1..Len(tj_rows) |->
                          IF i <= pairs THEN set(tj_rows[i], tj_tags[i]) ELSE tj_rows[i]]
         /\ IF Len(tj_rows) # Len(tj_tags)
            THEN pc' = "raised" /\ ret' = <<"ValueError">>
            ELSE pc' = "write" /\ ret' = ret
  /\ UNCHANGED <<files, jobs_df, tags_dict, resp, arg, tj_start, tj_tags, tj_out, tj_calls>>

\* lines 205-211: rows[0] raises IndexError for no rows; the file is opened,
\* which empties it, the header is written, and the rows up to the first
\* whose keys are not all in fieldnames, for which writerows raises ValueError
WriteOut ==
  /\ pc = "write"
  /\ LET fieldnames == [j \in 1..Len(tj_rows[1]) |-> tj_rows[1][j][1]]
         fits(row) == \A j \in 1..Len(row) : row[j][1] \in Range(fieldnames)
         written == IF \E i \in 1..Len(tj_rows) : ~fits(tj_rows[i])
                    THEN (CHOOSE i \in 1..Len(tj_rows) :
                            ~fits(tj_rows[i]) /\ \A k \in 1..(i - 1) : fits(tj_rows[k])) - 1
                    ELSE Len(tj_rows)
         \* the cells of a row in the order of fieldnames, '' for a missing key
         cells(row) ==
           [j \in 1..Len(fieldnames) |->
              IF \E k \in 1..Len(row) : row[k][1] = fieldnames[j]
              THEN row[CHOOSE k \in 1..Len(row) : row[k][1] = fieldnames[j]][2]
              ELSE <<>>]
     IN  IF tj_rows = <<>>
         THEN pc' = "raised" /\ ret' = <<"IndexError">> /\ tj_out' = tj_out
         ELSE /\ tj_out' = <<fieldnames>> \o [i \in 1..written |-> cells(tj_rows[i])]
              /\ IF written < Len(tj_rows)
                 THEN pc' = "raised" /\ ret' = <<"ValueError">>
                 ELSE pc' = "done" /\ ret' = <<"None">>
  /\ UNCHANGED <<files, jobs_df, tags_dict, resp, arg, tj_rows, tj_start, tj_tags, tj_calls>>

SpecTagJobs == InitTagJobs /\ [][ReadRows \/ TagBatch \/ AssignTags \/ WriteOut]_vars

----------------------------------------------------------------------------
(* Properties *)

Returned == pc = "return"

\* a similar-jobs query was answered with a list of matches
Answered == resp.status = 200 /\ resp.query = "similar-jobs"

RowById(id) == CHOOSE r \in Range(jobs_df) : r.id = id

Target == RowById(resp.job_id)

\* the rows of the table behind the returned matches, in the returned order
Matches == [i \in 1..Len(resp.similar_jobs) |-> RowById(resp.similar_jobs[i].id)]

TagSet(r) == Range(r.tag_list)

Shared(a, b) == Cardinality(TagSet(a) \cap TagSet(b))

Joint(a, b) == Cardinality(TagSet(a) \cup TagSet(b))

\* row a is more similar to the target than row b (Jaccard indices compared
\* as fractions; a row without tags has index 0)
MoreSimilar(a, b) ==
  /\ Shared(a, Target) > 0
  /\ Shared(a, Target) * Joint(b, Target) > Shared(b, Target) * Joint(a, Target)

HasInformation(r) ==
  r.title.kind # "nan" \/ r.description.kind # "nan" \/ r.salary.kind # "nan"

\* the candidates left after the three exclusions
Remaining ==
  {r \in Range(jobs_df) :
     r.company # Target.company /\ Shared(r, Target) > 0 /\ HasInformation(r)}

\* the text of a cell holds no valid integer token
NoIntegerToken(c) ==
  c.kind = "nan" \/
  \A i \in 1..Len(Split(PyStr(c), ",")) : IntOfText(Split(PyStr(c), ",")[i]) = None

\* C1: parse_tag_ids never yields an empty tag list, and yields exactly the
\* fallback [28] when its input holds no valid integer token.
C1_ParseTagIdsNeverEmpty ==
  Returned => /\ Len(ret) >= 1
              /\ NoIntegerToken(arg) => ret = <<FallbackTag>>

\* C2: the matches returned are the first 10 (or all, if fewer) of the
\* candidates left after the three exclusions, by descending similarity: the
\* exclusions come before the cap.
C2_TopTenOfRemaining ==
  Answered =>
    /\ Len(Matches) = (IF Cardinality(Remaining) < TopN THEN Cardinality(Remaining) ELSE TopN)
    /\ \A i \in 1..Len(Matches) : Matches[i] \in Remaining
    /\ \A i \in 1..Len(Matches), j \in 1..Len(Matches) :
         i < j => ~MoreSimilar(Matches[j], Matches[i])
    /\ \A r \in Remaining \ Range(Matches) :
         \A i \in 1..Len(Matches) : ~MoreSimilar(r, Matches[i])

\* C3: the match classification describes the returned list: "none" exactly
\* when the list is empty, "exact" exactly when the first returned match has
\* similarity 1, and "similar" otherwise.
C3_MatchTypeDescribesList ==
  Answered =>
    /\ resp.match_type \in {"none", "exact", "similar"}
    /\ resp.match_type = "none" <=> Len(Matches) = 0
    /\ resp.match_type = "exact" <=>
         (Len(Matches) > 0 /\ Shared(Matches[1], Target) = Joint(Matches[1], Target))

\* C4: no returned job is of the target's company, whatever its tags; the
\* target itself is never returned.
C4_NoSameSourceMatch ==
  Answered =>
    \A i \in 1..Len(Matches) :
      /\ Matches[i].company # Target.company
      /\ resp.similar_jobs[i].company # resp.target_job.company
      /\ resp.similar_jobs[i].id # resp.job_id

\* a query whose target has a peer of its own company with the same tags and
\* some information, and which returned matches
C4_Witness ==
  /\ Answered
  /\ Len(Matches) > 0
  /\ \E r \in Range(jobs_df) :
       /\ r.id # Target.id
       /\ r.company = Target.company
       /\ TagSet(r) = TagSet(Target)
       /\ HasInformation(r)

\* C5: every returned job shares a tag with the target (its similarity is
\* above 0); a candidate with disjoint tags, and a target or candidate
\* without tags, gives no match.
C5_MatchesShareATag ==
  Answered =>
    \A i \in 1..Len(Matches) :
      /\ TagSet(Matches[i]) \cap TagSet(Target) # {}
      /\ calculate_similarity(Target.tag_list, Matches[i].tag_list).num > 0

\* a query that returned a match and left out a candidate of another company
\* that has information but no tag in common with the target
C5_Witness ==
  /\ Answered
  /\ Len(Matches) > 0
  /\ \E r \in Range(jobs_df) :
       /\ r.company # Target.company
       /\ HasInformation(r)
       /\ r.tag_list # <<>>
       /\ TagSet(r) \cap TagSet(Target) = {}

\* C6: calculate_similarity(A, B) is |set(A) & set(B)| / |set(A) | set(B)| for
\* non-empty lists, whatever their duplicates, and 0 when A or B is empty.
C6_JaccardIndex ==
  Returned =>
    IF arg[1] = <<>> \/ arg[2] = <<>>
    THEN ret.num = 0
    ELSE /\ ret.den > 0
         /\ ret.num * Cardinality(Range(arg[1]) \cup Range(arg[2]))
              = ret.den * Cardinality(Range(arg[1]) \cap Range(arg[2]))

\* lists with duplicates: [1, 1, 2] and [2, 3, 3] have index 1/3
C6_Witness ==
  /\ Returned
  /\ arg = <<(<<1, 1, 2>>), (<<2, 3, 3>>)>>
  /\ ret.num * 3 = ret.den

\* C7: the similarity lies in [0, 1], is symmetric, is 1 for a non-empty list
\* with itself, and is 1 only for lists of equal tag sets.
C7_SimilarityLaws ==
  Returned =>
    /\ 0 <= ret.num /\ ret.num <= ret.den /\ ret.den > 0
    /\ ret = calculate_similarity(arg[2], arg[1])
    /\ (arg[1] = arg[2] /\ arg[1] # <<>>) => ret.num = ret.den
    /\ ret.num = ret.den => Range(arg[1]) = Range(arg[2])

\* two different lists of one tag set: similarity 1
C7_Witness ==
  /\ Returned
  /\ arg = <<(<<1, 2>>), (<<2, 1, 1>>)>>
  /\ ret.num = ret.den

\* the rows of the table that have the salary columns
SalaryRows == {r \in Range(jobs_df) : "salary_max" \in DOMAIN r}

Pair(a, b) == <<Some(FloatOf(a)), Some(FloatOf(b))>>

\* C9: extract_salary_range applies its rules in priority order: (1) missing
\* or 'Not specified': (None, None); (2) hourly marker: the first two numeric
\* tokens, or the only one twice; (3) a dash-separated range: its two numbers;
\* (4) a single numeric token twice; (5) (None, None).  It returns two numbers
\* or two Nones.
C9_SalaryRulePriority ==
  Returned =>
    LET s == Lower(PyStr(arg))
        marked == Contains(s, <<"h", "o", "u", "r", "l", "y">>) \/ Contains(s, <<"/", "h", "r">>)
        tokens == FindNumbers(s, 1)
        range == RangeSearch(s)
        rule == CASE arg.kind = "nan" \/ arg = Str(NotSpecified) -> 1
                  [] OTHER ->
                     IF marked /\ Len(tokens) >= 1 THEN 2
                     ELSE IF range # <<>> THEN 3
                     ELSE IF Len(tokens) >= 1 THEN 4
                     ELSE 5
    IN  /\ rule \in {1, 5} => ret = <<None, None>>
        /\ (rule = 2 /\ Len(tokens) >= 2) => ret = Pair(tokens[1], tokens[2])
        /\ (rule = 2 /\ Len(tokens) = 1) => ret = Pair(tokens[1], tokens[1])
        /\ rule = 3 => ret = Pair(range[1], range[2])
        /\ rule = 4 => ret = Pair(tokens[1], tokens[1])
        /\ (ret[1] = None) <=> (ret[2] = None)

\* "1/hr2-1": the hourly rule gives (1, 2) where the range rule would give (2, 1)
C9_Witness ==
  /\ Returned
  /\ arg = Str(<<"1", "/", "h", "r", "2", "-", "1">>)
  /\ RangeSearch(arg.s) = <<(<<"2">>), (<<"1">>)>>
  /\ ret = <<Some(1), Some(2)>>

\* the rows of the table that have the salary_avg column
AvgRows == {r \in Range(jobs_df) : "salary_avg" \in DOMAIN r}

NoDigit(c) == c.kind = "nan" \/ (c.kind = "str" /\ \A i \in 1..Len(c.s) : ~IsDigit(c.s[i]))

\* C10: salary_avg is (salary_min + salary_max) / 2 when both are present and
\* absent otherwise; it is never present with salary_min or salary_max
\* absent, and a salary text without a number leaves all three absent.
C10_SalaryAvgIsMean ==
  \A r \in AvgRows :
    /\ (r.salary_min # None /\ r.salary_max # None) =>
         /\ r.salary_avg # None
         /\ 2 * Val(r.salary_avg).num = (Val(r.salary_min) + Val(r.salary_max)) * Val(r.salary_avg).den
    /\ (r.salary_min = None \/ r.salary_max = None) => r.salary_avg = None
    /\ NoDigit(r.salary) =>
         (r.salary_min = None /\ r.salary_max = None /\ r.salary_avg = None)

\* a table with a row of average 4.5 (from "3-6/hr") and a row whose salary
\* text holds no number
C10_Witness ==
  /\ \E r \in AvgRows : r.salary_avg = Some(Frac(9, 2)) /\ r.salary_min = Some(3)
  /\ \E r \in AvgRows : r.salary = Str(<<"k">>) /\ r.salary_avg = None

\* load_job_data was called
Loaded == pc # "load"

\* the rows of the table that come from the company
RowsFrom(company) == SelectSeq(jobs_df, LAMBDA r : r.company = company)

\* the place of the company in the configuration
SourceIndex(company) == CHOOSE k \in 1..Len(Companies) : Companies[k] = company

\* C11: load_job_data never fails because sources fail to load: whatever
\* subset of the sources fails, all of them included, it returns a table that
\* holds exactly the rows of the sources that did load, in source
\* configuration order.
C11_LoadNeverFails ==
  Loaded =>
    /\ pc # "crashed"
    /\ \A c \in CompanySet :
         Len(RowsFrom(c)) = (IF files[c].ok THEN Len(files[c].rows) ELSE 0)
    /\ \A i \in 1..Len(jobs_df), j \in 1..Len(jobs_df) :
         i < j => SourceIndex(jobs_df[i].company) <= SourceIndex(jobs_df[j].company)

\* the rows of the table that have the id column, by position
IdRows == {i \in 1..Len(jobs_df) : "id" \in DOMAIN jobs_df[i]}

\* the number an id ends in
IdNumber(id) == DecVal(SubSeq(id, 5, Len(id)))

\* the canonical fields of a row and its company
Contents(r) == [c \in Range(StdCols) \cup {"company"} |-> r[c]]

\* C12: the row at position i (from 0) has the id 'job_' followed by i padded
\* with zeros to 6 digits, whatever the row holds; so the ids are pairwise
\* distinct and increase in processing order, and the ids and the row contents
\* are a function of the files read.  The table is looked at between the
\* queries, which leave it as it is.
C12_IdsByPosition ==
  resp = NoResp =>
    /\ \A i \in IdRows :
         /\ Len(jobs_df[i].id) = 10
         /\ SubSeq(jobs_df[i].id, 1, 4) = <<"j", "o", "b", "_">>
         /\ IsDigitStr(SubSeq(jobs_df[i].id, 5, 10))
         /\ IdNumber(jobs_df[i].id) = i - 1
    /\ \A i \in IdRows, j \in IdRows :
         i < j => /\ jobs_df[i].id # jobs_df[j].id
                  /\ IdNumber(jobs_df[i].id) < IdNumber(jobs_df[j].id)
    /\ pc \notin {"load", "crashed"} => IdRows \in {{}, 1..Len(jobs_df)}
    /\ pc \in {"tags_dict", "serve"} =>
         [i \in 1..Len(jobs_df) |-> Contents(jobs_df[i])]
           = Concat(AllJobs(files, Len(Companies)))

\* a table of 13 rows of three companies: the last row has the id job_000012
C12_Witness ==
  /\ pc = "serve"
  /\ Len(jobs_df) = 1 + 2 * MaxCopies
  /\ jobs_df[Len(jobs_df)].company = Companies[3]
  /\ IdNumber(jobs_df[Len(jobs_df)].id) = 2 * MaxCopies
  /\ Len(jobs_df[Len(jobs_df)].id) = 10
  /\ \E i \in 1..(Len(jobs_df) - 1) : Contents(jobs_df[i]) = Contents(jobs_df[Len(jobs_df)])

\* the id is the id of no row of the table
UnknownId(id) == \A r \in Range(jobs_df) : r.id # id

\* C13: a similar-jobs query for an id that no row of the table has is
\* answered 'Job not found' with status 404: not the internal failure (500)
\* and not a successful response with a list of matches; the query leaves
\* the table as it is.
C13_UnknownIdNotFound ==
  [][(pc = "serve" /\ resp'.status # 0 /\ resp'.query = "similar-jobs"
        /\ UnknownId(resp'.job_id))
       => /\ resp'.status = 404
          /\ resp'.error = "Job not found"
          /\ DOMAIN resp' = {"query", "job_id", "status", "error"}
          /\ jobs_df' = jobs_df]_vars

\* a table with rows was asked for the unpadded id job_0 and answered 404
C13_Witness ==
  /\ Len(jobs_df) > 0
  /\ resp.status = 404
  /\ resp.job_id = <<"j", "o", "b", "_", "0">>
  /\ \E r \in Range(jobs_df) : r.id = JobId(0)

\* C14: once the table is built, no query (stats, listing, tags, company
\* analysis, comparison, similar jobs, their error answers included) changes
\* the table or the tag catalog: rows, row order, columns and cell values are
\* the same after the query as before it; the similarity_score column is only
\* written on the handler's own copy.
C14_QueriesLeaveTheTable ==
  [][pc = "serve" => (jobs_df' = jobs_df /\ tags_dict' = tags_dict /\ pc' = "serve")]_vars

\* a similar-jobs query scored the candidates and returned matches, and no row
\* of the table has a similarity_score
C14_Witness ==
  /\ pc = "serve"
  /\ resp.status = 200
  /\ resp.query = "similar-jobs"
  /\ Len(resp.similar_jobs) > 0
  /\ \A r \in Range(jobs_df) : "similarity_score" \notin DOMAIN r

\* the place of a statement of the module in the order of execution
StageOf ==
  [load |-> 1, ids |-> 2, tags_dict |-> 3, salary |-> 4, salary_avg |-> 5,
   tag_list |-> 6, tag_names |-> 7, serve |-> 8, crashed |-> 8]

\* the table holds the rows of every source that was read and all the columns
\* of the build
Complete(df) ==
  /\ [i \in 1..Len(df) |-> Contents(df[i])] = Concat(AllJobs(files, Len(Companies)))
  /\ \A i \in 1..Len(df) :
       {"id", "salary_min", "salary_max", "salary_avg", "tag_list", "tag_names"}
         \subseteq DOMAIN df[i]

\* C15: the table is built once and completely before the first query is
\* served: the statements of the build run in order, each once, the table
\* changes only with such a statement, the table with which serving starts
\* holds every source read and the id, salary_min, salary_max, salary_avg,
\* tag_list and tag_names columns, and a query is answered only while serving.
C15_BuiltBeforeServed ==
  [][/\ pc' # pc => StageOf[pc'] > StageOf[pc]
     /\ jobs_df' # jobs_df => pc' # pc
     /\ (pc' = "serve" /\ pc' # pc) => Complete(jobs_df')
     /\ (resp' # resp /\ resp' # NoResp) => pc = "serve"]_vars

\* a query was answered from a table of two sources
C15_Witness ==
  /\ pc = "serve"
  /\ resp # NoResp
  /\ \E i \in 1..Len(jobs_df), j \in 1..Len(jobs_df) : jobs_df[i].company # jobs_df[j].company
  /\ Complete(jobs_df)

\* rows a and b are equally similar to the target
EquallySimilar(a, b) ==
  Shared(a, Target) * Joint(b, Target) = Shared(b, Target) * Joint(a, Target)

\* C16: returned jobs of equal similarity are in table order, and a candidate
\* left out by the cap of 10 comes later in the table than every returned job
\* of the same similarity: the descending sort is stable.
C16_TiesInTableOrder ==
  Answered =>
    /\ \A i \in 1..Len(Matches), j \in 1..Len(Matches) :
         (i < j /\ EquallySimilar(Matches[i], Matches[j]))
           => IdNumber(Matches[i].id) < IdNumber(Matches[j].id)
    /\ \A r \in Remaining \ Range(Matches) :
         \A i \in 1..Len(Matches) :
           EquallySimilar(r, Matches[i]) => IdNumber(Matches[i].id) < IdNumber(r.id)

\* the company analysis was answered
Analysed == resp.status = 200 /\ resp.query = "company-analysis"

\* how often the tag occurs in the rows of the company
TagCount(company, tag_id) ==
  LET all_tags == Extend(Column(RowsFrom(company), "tag_list"))
  IN  Cardinality({i \in 1..Len(all_tags) : all_tags[i] = tag_id})

\* the tags of the rows of the company
TagsUsed(company) == UNION {Range(r.tag_list) : r \in Range(RowsFrom(company))}

\* tag a goes before tag b: it is more frequent, or as frequent and of lower ID
Before(company, a, b) ==
  \/ TagCount(company, a) > TagCount(company, b)
  \/ (TagCount(company, a) = TagCount(company, b) /\ a < b)

\* C17: the top tags of a source are its (at most) 10 most frequent tag IDs in
\* descending frequency, tags of equal frequency by ascending tag ID, in the
\* listed order and at the cut, whatever the order of the tags in the rows.
C17_TopTagsOrder ==
  Analysed =>
    \A company \in DOMAIN resp.analysis :
      LET top == resp.analysis[company].top_tags
          id(k) == top[k][1][2]
      IN  /\ Len(top) = (IF Cardinality(TagsUsed(company)) < TopN
                         THEN Cardinality(TagsUsed(company)) ELSE TopN)
          /\ \A k \in 1..Len(top) :
               /\ id(k) \in TagsUsed(company)
               /\ top[k] = <<TagNameOf(tags_dict, id(k)), TagCount(company, id(k))>>
          /\ \A k \in 1..Len(top), m \in 1..Len(top) :
               k < m => Before(company, id(k), id(m))
          /\ \A t \in TagsUsed(company) \ {id(k) : k \in 1..Len(top)} :
               \A k \in 1..Len(top) : Before(company, id(k), t)

\* a listing was asked with arguments the claim covers: the tag is 'all' or a
\* tag ID
Listed ==
  /\ resp.status # 0
  /\ resp.query = "jobs"
  /\ (resp.tag = <<"a", "l", "l">> \/ IsDigitStr(resp.tag))

\* the text of the cell holds the search text, whatever the case of the two
HoldsText(c, search) == c.kind = "str" /\ Contains(Lower(c.s), Lower(search))

\* the row satisfies every predicate of the listing that was asked
Satisfies(r) ==
  /\ resp.company = "all" \/ r.company = resp.company
  /\ resp.tag = <<"a", "l", "l">> \/ DecVal(resp.tag) \in Range(r.tag_list)
  /\ resp.search = <<>> \/ HoldsText(r.title, resp.search)
       \/ HoldsText(r.description, resp.search)

\* C18: the listing returns exactly the rows of the table that satisfy every
\* supplied predicate (source equality, tag membership, case-insensitive
\* substring of the title or the description), in table order; with no
\* predicate it returns every row.
C18_ListingIsTheFilter ==
  Listed =>
    /\ resp.status = 200
    /\ [i \in 1..Len(resp.jobs) |-> resp.jobs[i].id]
         = Column(SelectSeq(jobs_df, Satisfies), "id")

\* the sources whose map names no location column and gives the constant
HasDefault(company, field) ==
  field = "location" /\ ColumnMap[company][field] = NoCol
    /\ company \in {"afterquery", "handshake"}

\* the value the claim gives the field of the i-th row of the source
Resolved(company, field, i) ==
  IF ColumnMap[company][field] # NoCol
       /\ ColumnMap[company][field] \in files[company].columns
  THEN files[company].rows[i][ColumnMap[company][field]]
  ELSE IF HasDefault(company, field) THEN Str(Remote)
  ELSE NaN

\* C19: every canonical field of every row of a source holds the value of the
\* mapped column if the file has it, else the literal default of the source's
\* map ('Remote' for the location of afterquery and handshake), else nothing;
\* no other column fills a field, and every row carries its source.
C19_FieldResolution ==
  pc = "ids" =>
    \A company \in CompanySet :
      \A i \in 1..Len(RowsFrom(company)) :
        /\ RowsFrom(company)[i].company = company
        /\ DOMAIN RowsFrom(company)[i] = Range(StdCols) \cup {"company"}
        /\ \A field \in Range(StdCols) :
             RowsFrom(company)[i][field] = Resolved(company, field, i)

\* the index after the number written with any count of separated groups,
\* digits(,digits)*, that starts at i
RECURSIVE GroupsEnd(_, _)
GroupsEnd(s, i) ==
  LET j == DigitsEnd(s, i)
  IN  IF j + 1 <= Len(s) /\ s[j] = "," /\ IsDigit(s[j + 1]) THEN GroupsEnd(s, j + 1) ELSE j

\* the numbers of the text, each with all its groups, from index i on
RECURSIVE WholeNumbers(_, _)
WholeNumbers(s, i) ==
  IF i > Len(s) THEN <<>>
  ELSE IF ~IsDigit(s[i]) THEN WholeNumbers(s, i + 1)
  ELSE <<SubSeq(s, i, GroupsEnd(s, i) - 1)>> \o WholeNumbers(s, GroupsEnd(s, i))

\* the text is a number, a dash between optional spaces, and a number
IsPlainRange(s, numbers) ==
  /\ Len(numbers) = 2
  /\ \E a \in 0..2, b \in 0..2 :
       \E d \in {"-", EnDash} :
         s = numbers[1] \o [i \in 1..a |-> " "] \o <<d>> \o [i \in 1..b |-> " "] \o numbers[2]

\* C20: a number written with thousands separators is read as the number
\* without the separators, whatever the count of its groups ('85,000' is
\* 85000, '1,250,000' is 1250000), by the hourly, the range and the
\* single-value rule; it is never split or cut to a smaller number.
C20_ThousandsSeparators ==
  (Returned /\ arg.kind = "str" /\ arg # Str(NotSpecified)) =>
    LET s == Lower(arg.s)
        marked == Contains(s, <<"h", "o", "u", "r", "l", "y">>) \/ Contains(s, <<"/", "h", "r">>)
        numbers == WholeNumbers(s, 1)
    IN  /\ (marked /\ Len(numbers) >= 2) => ret = Pair(numbers[1], numbers[2])
        /\ (marked /\ Len(numbers) = 1) => ret = Pair(numbers[1], numbers[1])
        /\ (~marked /\ IsPlainRange(s, numbers)) => ret = Pair(numbers[1], numbers[2])
        /\ (~marked /\ Len(numbers) = 1) => ret = Pair(numbers[1], numbers[1])


\* C21: for every salary text that holds an hourly marker and also matches
\* the dash-separated range pattern, the hourly rule (the first two numeric
\* tokens of the whole text) and the generic range rule (the two numbers
\* around the dash) give the same (min, max) pair, so that the result is the
\* one of the range rule and the order of the two rules does not change it.
C21_HourlyRuleIsRangeRule ==
  (Returned /\ arg.kind = "str" /\ arg # Str(NotSpecified)) =>
    LET s == Lower(arg.s)
        marked == Contains(s, <<"h", "o", "u", "r", "l", "y">>) \/ Contains(s, <<"/", "h", "r">>)
        range == RangeSearch(s)
    IN  (marked /\ range # <<>>) =>
          /\ ret = Pair(range[1], range[2])
          /\ ret = extract_salary_range_RangeFirst(arg)


\* the rows of the batches handed to generate, one batch after the other
Covered == Flatten([k \in 1..Len(tj_calls) |-> tj_calls[k].batch])

\* the tag entries that the calls of generate gave, one call after the other
Entries == Flatten([k \in 1..Len(tj_calls) |-> tj_calls[k].tags])

\* the call gave as many tag entries as its batch has rows
Matched(call) == call.raised = "" /\ Len(call.tags) = Len(call.batch)

\* the run has written the output file
Written == tj_out # arg.out

\* row[key], '' for a row without the key
CellOf(row, key) ==
  IF \E k \in 1..Len(row) : row[k][1] = key
  THEN row[CHOOSE k \in 1..Len(row) : row[k][1] = key][2]
  ELSE <<>>

\* C22: tag_jobs is all-or-nothing over its batches.  (1) The batches handed
\* to generate are the consecutive runs of batch_size rows of the input, in
\* input order, the last one possibly shorter, none empty.  (2) The output
\* file is written only after every batch gave exactly as many tag entries
\* as it has rows, the batches then covering every row exactly once.  (3) If
\* a batch gives another count, tag_jobs raises RuntimeError and the output
\* file is not written.  (4) On success the file holds every input row once,
\* in input order, each with exactly one tag_ids value, the i-th row with
\* the i-th tag entry overall.
C22_AllOrNothing ==
  LET n == Len(arg.inp)
      size == arg.batch_size
  IN  /\ \A k \in 1..Len(tj_calls) :
           /\ size >= 1
           /\ tj_calls[k].batch # <<>>
           /\ tj_calls[k].batch =
                SubSeq(arg.inp, (k - 1) * size + 1, IF k * size < n THEN k * size ELSE n)
      /\ Written =>
           /\ \A k \in 1..Len(tj_calls) : Matched(tj_calls[k])
           /\ Covered = arg.inp
           /\ Len(Entries) = n
      /\ (\E k \in 1..Len(tj_calls) :
            tj_calls[k].raised = "" /\ Len(tj_calls[k].tags) # Len(tj_calls[k].batch)) =>
           /\ pc = "raised"
           /\ ret = <<"RuntimeError">>
           /\ ~Written
      /\ pc = "done" =>
           /\ Written
           /\ ret = <<"None">>
           /\ Len(tj_out) = n + 1
           /\ Cardinality({j \in 1..Len(tj_out[1]) : tj_out[1][j] = "tag_ids"}) = 1
           /\ \A i \in 1..n :
                /\ Len(tj_out[i + 1]) = Len(tj_out[1])
                /\ \A j \in 1..Len(tj_out[1]) :
                     tj_out[i + 1][j] = IF tj_out[1][j] = "tag_ids" THEN Entries[i]
                                        ELSE CellOf(arg.inp[i], tj_out[1][j])

\* three rows tagged in a batch of two and a batch of one, and written
C22_Witness ==
  /\ pc = "done"
  /\ Len(arg.inp) = 3
  /\ arg.batch_size = 2
  /\ Len(tj_calls) = 2
  /\ Len(tj_calls[2].batch) = 1
  /\ Len(tj_out) = 4
  /\ \A i \in 1..3 : tj_out[i + 1][Len(tj_out[1])] = Entries[i]

====
